---- MODULE Spec2Model ----
(***************************************************************************)
(* MongoDBPipeline of bogota_apartments (src/bogota_apartments/pipelines.py) *)
(* as a state machine: the collection of stored documents, the pipeline's  *)
(* connection fields, and one action per Scrapy callback (open_spider,     *)
(* process_item, close_spider).                                            *)
(*                                                                         *)
(* A document (and an item) is a Python dict: here a function from the set *)
(* of keys it holds to their values, so that "key in dict" is              *)
(* k \in DOMAIN d.  A timeline entry is the dict {'fecha': t, field: v}.   *)
(***************************************************************************)
EXTENDS Integers, Sequences, FiniteSets, TLC

VARIABLES
    enabled,    \* self.enabled
    client,     \* self.client: "None", "open" or "closed"
    db,         \* self.db: "None" or "db"
    store,      \* self.db[self.collection]: the documents, in natural order
    clock,      \* datetime.now(): advances with every process_item call
    phase,      \* Scrapy's use of the pipeline: "new", "running" or "closed"
    scenario,   \* which listings the producer yields in this run
    last,       \* what the last process_item call did (history)
    workers     \* the process_item calls in flight when two crawls share the store

vars == <<enabled, client, db, store, clock, phase, scenario, last, workers>>

---------------------------------------------------------------------------
(* Bounds *)

\* process_item calls in one behaviour
MaxCalls == 3

---------------------------------------------------------------------------
(* Python dicts *)

\* Python's None, as the value dict.get returns for a missing key
None == -1

\* a str held where a number is expected (a tracked field scraped as text);
\* Python's != between it and a number or None is True and does not raise
TextValue == -2

\* a featured_* value that is not a list (None, a number): list += it raises
\* TypeError
NotAList == <<"<not a list>">>

EmptyDict == [k \in {} |-> None]

Get(d, k, default) == IF k \in DOMAIN d THEN d[k] ELSE default

Put(d, k, v) == [x \in (DOMAIN d) \cup {k} |-> IF x = k THEN v ELSE d[x]]

Del(d, k) == [x \in (DOMAIN d) \ {k} |-> d[x]]

\* dict.update / $set: the keys of b override those of a
Merge(a, b) ==
    [x \in (DOMAIN a) \cup (DOMAIN b) |-> IF x \in DOMAIN b THEN b[x] ELSE a[x]]

---------------------------------------------------------------------------
(* The collection *)

RECURSIVE FirstMatch(_, _, _)
FirstMatch(coll, codigo, i) ==
    IF i > Len(coll) THEN 0
    ELSE IF "codigo" \in DOMAIN coll[i] /\ coll[i]["codigo"] = codigo THEN i
    ELSE FirstMatch(coll, codigo, i + 1)

\* find_one({'codigo': c}): index of the first matching document, 0 for None
find_one(coll, codigo) == FirstMatch(coll, codigo, 1)

\* update_one({'codigo': c}, {'$set': doc}): sets doc's keys on the first match
update_one(coll, codigo, doc) ==
    LET i == find_one(coll, codigo)
    IN  IF i = 0 THEN coll
        ELSE [coll EXCEPT ![i] = Merge(coll[i], doc)]

\* insert_one(doc): appends the document under a fresh _id
insert_one(coll, doc) == Append(coll, Put(doc, "_id", Len(coll) + 1))

---------------------------------------------------------------------------
(* process_item: the merge of one observation *)

\* the source keys aggregated into 'caracteristicas', in the code's order
featured_keys ==
    <<"featured_interior", "featured_exterior", "featured_zona_comun", "featured_sector">>

RECURSIVE ConcatFeatured(_, _)
ConcatFeatured(data, keys) ==
    IF keys = <<>> THEN <<>>
    ELSE (IF Head(keys) \in DOMAIN data THEN data[Head(keys)] ELSE <<>>)
         \o ConcatFeatured(data, Tail(keys))

RECURSIVE DelKeys(_, _)
DelKeys(data, keys) ==
    IF keys = <<>> THEN data ELSE DelKeys(Del(data, Head(keys)), Tail(keys))

\* data['caracteristicas'] = [] and the loop that fills it and deletes the keys
remap(data) ==
    Put(DelKeys(data, featured_keys), "caracteristicas",
        ConcatFeatured(data, featured_keys))

\* `data['caracteristicas'] += data.get(key, [])` raises TypeError
remap_raises(data) ==
    \E i \in 1..Len(featured_keys) :
        featured_keys[i] \in DOMAIN data /\ data[featured_keys[i]] = NotAList

\* {'fecha': t, field: v}
Entry(t, field, v) == [k \in {"fecha", field} |-> IF k = "fecha" THEN t ELSE v]

\* faulty variants of needs_baseline: the baseline is never written / always written
needs_baseline_never(timeline, field) == FALSE

needs_baseline_always(timeline, field) == TRUE

\* `if not timeline:` decides whether a baseline entry precedes the new one
needs_baseline(timeline, field) == timeline = <<>>

\* faulty variant of fields_to_track: the rent price is tracked first
fields_to_track_reversed == <<"precio_arriendo", "precio_venta">>

\* fields_to_track of the metrocuadrado branch
fields_to_track == <<"precio_venta", "precio_arriendo">>

\* fields tracked by the habi branch (`field = 'precio_venta'`)
habi_fields == <<"precio_venta">>

\* faulty variant of track_field: the new value is logged but not stored
track_field_not_stored(acc, data, field, now) ==
    LET ud == acc.doc
        tl == ud["timeline"]
    IN  IF field \in DOMAIN data /\ data[field] # Get(ud, field, None)
        THEN LET base == IF needs_baseline(tl, field)
                         THEN <<Entry(Get(ud, "datetime", now), field, Get(ud, field, None))>>
                         ELSE <<>>
                 tl2  == (tl \o base) \o <<Entry(now, field, data[field])>>
             IN  [doc |-> Put(ud, "timeline", tl2), price_changed |-> TRUE]
        ELSE IF field \notin DOMAIN ud /\ field \in DOMAIN data
        THEN [doc |-> Put(ud, field, data[field]), price_changed |-> TRUE]
        ELSE acc

\* faulty variant of track_field: the baseline is appended after the new entry
track_field_baseline_last(acc, data, field, now) ==
    LET ud == acc.doc
        tl == ud["timeline"]
    IN  IF field \in DOMAIN data /\ data[field] # Get(ud, field, None)
        THEN LET base == IF tl = <<>>
                         THEN <<Entry(Get(ud, "datetime", now), field, Get(ud, field, None))>>
                         ELSE <<>>
                 tl2  == (tl \o <<Entry(now, field, data[field])>>) \o base
             IN  [doc |-> Put(Put(ud, "timeline", tl2), field, data[field]),
                  price_changed |-> TRUE]
        ELSE IF field \notin DOMAIN ud /\ field \in DOMAIN data
        THEN [doc |-> Put(ud, field, data[field]), price_changed |-> TRUE]
        ELSE acc

\* faulty variant of track_field: the timeline is rebuilt instead of extended
track_field_rebuilt(acc, data, field, now) ==
    LET ud == acc.doc
        tl == ud["timeline"]
    IN  IF field \in DOMAIN data /\ data[field] # Get(ud, field, None)
        THEN LET tl2 == <<Entry(Get(ud, "datetime", now), field, Get(ud, field, None)),
                          Entry(now, field, data[field])>>
             IN  [doc |-> Put(Put(ud, "timeline", tl2), field, data[field]),
                  price_changed |-> TRUE]
        ELSE IF field \notin DOMAIN ud /\ field \in DOMAIN data
        THEN [doc |-> Put(ud, field, data[field]), price_changed |-> TRUE]
        ELSE acc

\* faulty variant of track_field: a field missing from the item counts as changed
track_field_absent_is_change(acc, data, field, now) ==
    LET ud == acc.doc
        tl == ud["timeline"]
    IN  IF Get(data, field, None) # Get(ud, field, None)
        THEN LET base == IF needs_baseline(tl, field)
                         THEN <<Entry(Get(ud, "datetime", now), field, Get(ud, field, None))>>
                         ELSE <<>>
                 tl2  == (tl \o base) \o <<Entry(now, field, Get(data, field, None))>>
             IN  [doc |-> Put(Put(ud, "timeline", tl2), field, Get(data, field, None)),
                  price_changed |-> TRUE]
        ELSE IF field \notin DOMAIN ud /\ field \in DOMAIN data
        THEN [doc |-> Put(ud, field, data[field]), price_changed |-> TRUE]
        ELSE acc

\* One round of the tracking loop on acc = [doc, price_changed]; the timeline
\* list is the one held by update_data, so appends show in the document.
track_field(acc, data, field, now) ==
    LET ud == acc.doc
        tl == ud["timeline"]
    IN  IF field \in DOMAIN data /\ data[field] # Get(ud, field, None)
        THEN LET base == IF needs_baseline(tl, field)
                         THEN <<Entry(Get(ud, "datetime", now), field, Get(ud, field, None))>>
                         ELSE <<>>
                 tl2  == (tl \o base) \o <<Entry(now, field, data[field])>>
             IN  [doc |-> Put(Put(ud, "timeline", tl2), field, data[field]),
                  price_changed |-> TRUE]
        ELSE IF field \notin DOMAIN ud /\ field \in DOMAIN data
        THEN [doc |-> Put(ud, field, data[field]), price_changed |-> TRUE]
        ELSE acc

RECURSIVE track_fields(_, _, _, _)
track_fields(acc, data, fields, now) ==
    IF fields = <<>> THEN acc
    ELSE track_fields(track_field(acc, data, Head(fields), now), data, Tail(fields), now)

\* faulty variant of begin_update: last_view is left as it was stored
begin_update_not_seen(existing_item, now) ==
    IF "timeline" \in DOMAIN existing_item THEN existing_item
    ELSE Put(existing_item, "timeline", <<>>)

\* update_data = existing_item; last_view; timeline = setdefault('timeline', [])
begin_update(existing_item, now) ==
    LET lv == Put(existing_item, "last_view", now)
    IN  IF "timeline" \in DOMAIN lv THEN lv ELSE Put(lv, "timeline", <<>>)

\* faulty variant of other_fields_metrocuadrado: every field of the item is
\* copied over the stored one
other_fields_all(ud, data) == Merge(ud, data)

\* the non-tracked fields the metrocuadrado update writes
other_fields_metrocuadrado(ud, data) ==
    Put(Put(ud, "imagenes", Get(data, "imagenes", <<>>)),
        "descripcion", Get(data, "descripcion", ""))

\* the habi update writes no non-tracked field
other_fields_habi(ud, data) == ud

\* faulty variant of with_datetime: the item's own datetime is overwritten
with_datetime_now(data, now) == Put(data, "datetime", now)

\* data['datetime'] = data.get('datetime', datetime.now())
with_datetime(data, now) == Put(data, "datetime", Get(data, "datetime", now))

\* faulty variant of missing_codigo: an empty codigo is let through
missing_codigo_absent_only(data) == "codigo" \notin DOMAIN data

\* `if not codigo:` with codigo = data.get('codigo')
missing_codigo(data) == "codigo" \notin DOMAIN data \/ data["codigo"] = ""

Result(st, outcome, path, changed, data, reads, writes) ==
    [store |-> st, outcome |-> outcome, path |-> path, price_changed |-> changed,
     data |-> data, reads |-> reads, writes |-> writes]

\* what the existing-record branch computes from the document it read:
\* [doc |-> update_data, price_changed |-> the flag]
merge_update(existing_item, data, fields, others_metro, now) ==
    LET acc == track_fields([doc |-> begin_update(existing_item, now),
                             price_changed |-> FALSE], data, fields, now)
    IN  [doc |-> IF others_metro THEN other_fields_metrocuadrado(acc.doc, data)
                 ELSE other_fields_habi(acc.doc, data),
         price_changed |-> acc.price_changed]

\* faulty variant of update_branch: the timeline and the fields are written by
\* two update_one calls, and a write error strikes the second
update_branch_split(coll, data, fields, others_metro, now, fail) ==
    LET existing_item == coll[find_one(coll, data["codigo"])]
        m == merge_update(existing_item, data, fields, others_metro, now)
        first == update_one(coll, data["codigo"], [timeline |-> m.doc["timeline"]])
    IN  IF fail = "write"
        THEN Result(first, "DropItem", "error", FALSE, data, 1, 2)
        ELSE Result(update_one(first, data["codigo"], m.doc), "item", "update",
                    m.price_changed, data, 1, 2)

\* faulty variant of update_branch: update_data is a copy, and the
\* metrocuadrado branch writes back the existing_item it read
update_branch_unaliased(coll, data, fields, others_metro, now, fail) ==
    LET existing_item == coll[find_one(coll, data["codigo"])]
        m == merge_update(existing_item, data, fields, others_metro, now)
    IN  IF fail = "write"
        THEN Result(coll, "DropItem", "error", FALSE, data, 1, 1)
        ELSE Result(update_one(coll, data["codigo"],
                               IF others_metro THEN existing_item ELSE m.doc),
                    "item", "update", m.price_changed, data, 1, 1)

\* the existing-record branch of metrocuadrado and habi
update_branch(coll, data, fields, others_metro, now, fail) ==
    LET existing_item == coll[find_one(coll, data["codigo"])]
        m == merge_update(existing_item, data, fields, others_metro, now)
    IN  IF fail = "write"
        THEN Result(coll, "DropItem", "error", FALSE, data, 1, 1)
        ELSE Result(update_one(coll, data["codigo"], m.doc), "item", "update",
                    m.price_changed, data, 1, 1)

\* faulty variant of insert_branch: the error is raised after the document went in
insert_branch_kept(coll, data, path, now, fail, reads) ==
    IF fail = "write"
    THEN Result(insert_one(coll, with_datetime(data, now)), "DropItem", "error", FALSE,
                data, reads, 1)
    ELSE Result(insert_one(coll, with_datetime(data, now)), "item", path, FALSE,
                data, reads, 1)

\* insert_one in the insert branches and in the default branch
insert_branch(coll, data, path, now, fail, reads) ==
    IF fail = "write"
    THEN Result(coll, "DropItem", "error", FALSE, data, reads, 1)
    ELSE Result(insert_one(coll, with_datetime(data, now)), "item", path, FALSE,
                data, reads, 1)

\* find_one, then update or insert
upsert(coll, data, fields, others_metro, now, fail) ==
    IF fail = "read"
    THEN Result(coll, "DropItem", "error", FALSE, data, 1, 0)
    ELSE IF find_one(coll, data["codigo"]) # 0
    THEN update_branch(coll, data, fields, others_metro, now, fail)
    ELSE insert_branch(coll, data, "insert", now, fail, 1)

\* faulty variant of process_item: the codigo is checked before the connection
process_item_codigo_first(coll, en, cl, d, item, spider, now, fail) ==
    IF missing_codigo(item)
    THEN Result(coll, "DropItem", "missing", FALSE, item, 0, 0)
    ELSE IF ~en \/ cl = "None" \/ d = "None"
    THEN Result(coll, "item", "disabled", FALSE, item, 0, 0)
    ELSE IF spider = "metrocuadrado"
    THEN IF fail # "read" /\ remap_raises(item)
         THEN Result(coll, "DropItem", "error", FALSE, item, 1, 0)
         ELSE upsert(coll, remap(item), fields_to_track, TRUE, now, fail)
    ELSE IF spider = "habi"
    THEN upsert(coll, item, habi_fields, FALSE, now, fail)
    ELSE IF spider = "metrocuadrado_search"
    THEN Result(coll, "item", "skip", FALSE, item, 0, 0)
    ELSE insert_branch(coll, item, "fallback", now, fail, 0)

\* faulty variant of process_item: metrocuadrado_search falls into the default insert
process_item_search_saved(coll, en, cl, d, item, spider, now, fail) ==
    IF ~en \/ cl = "None" \/ d = "None"
    THEN Result(coll, "item", "disabled", FALSE, item, 0, 0)
    ELSE IF missing_codigo(item)
    THEN Result(coll, "DropItem", "missing", FALSE, item, 0, 0)
    ELSE IF spider = "metrocuadrado"
    THEN IF fail # "read" /\ remap_raises(item)
         THEN Result(coll, "DropItem", "error", FALSE, item, 1, 0)
         ELSE upsert(coll, remap(item), fields_to_track, TRUE, now, fail)
    ELSE IF spider = "habi"
    THEN upsert(coll, item, habi_fields, FALSE, now, fail)
    ELSE insert_branch(coll, item, "fallback", now, fail, 0)

\* process_item(item, spider) at time now; fail names the store operation
\* that raises PyMongoError in this call ("none", "read" or "write")
process_item(coll, en, cl, d, item, spider, now, fail) ==
    IF ~en \/ cl = "None" \/ d = "None"
    THEN Result(coll, "item", "disabled", FALSE, item, 0, 0)
    ELSE IF missing_codigo(item)
    THEN Result(coll, "DropItem", "missing", FALSE, item, 0, 0)
    ELSE IF spider = "metrocuadrado"
    THEN IF fail # "read" /\ remap_raises(item)
         THEN Result(coll, "DropItem", "error", FALSE, item, 1, 0)
         ELSE upsert(coll, remap(item), fields_to_track, TRUE, now, fail)
    ELSE IF spider = "habi"
    THEN upsert(coll, item, habi_fields, FALSE, now, fail)
    ELSE IF spider = "metrocuadrado_search"
    THEN Result(coll, "item", "skip", FALSE, item, 0, 0)
    ELSE insert_branch(coll, item, "fallback", now, fail, 0)

---------------------------------------------------------------------------
(* The listing producer: the items a run can yield *)

Spiders == {"metrocuadrado", "habi", "metrocuadrado_search", "other"}

\* an optional key: absent, or present with one of vals
Opt(key, vals) == {EmptyDict} \cup {[k \in {key} |-> v] : v \in vals}

Key(key, vals) == {[k \in {key} |-> v] : v \in vals}

\* the non-tracked attributes an item carries
Bundles ==
    { EmptyDict,
      [area |-> 1, descripcion |-> "d1", imagenes |-> <<"i1">>,
       featured_interior |-> <<"f1">>, featured_sector |-> <<"f2">>],
      [area |-> 2, descripcion |-> "d2", featured_exterior |-> <<"f3">>,
       datetime |-> 0, last_view |-> 0] }

\* items without a usable codigo
NoCodigoItems == {[precio_venta |-> 100], [codigo |-> "", precio_venta |-> 100]}

\* A scenario is the bounded universe of one run: the items the producer
\* can yield, the spiders that feed the pipeline and whether the store fails.
Scenarios == {"sale", "prices", "attrs", "faults", "malformed", "stamped", "nulls"}

\* the spider stamps the item when it scrapes it: last_view and datetime
Stamps == {EmptyDict} \cup {[datetime |-> t, last_view |-> t] : t \in 0..(MaxCalls - 1)}

\* an item reaches the pipeline no earlier than it was scraped
Scraped(item, now) ==
    /\ "datetime" \in DOMAIN item => item["datetime"] <= now
    /\ "last_view" \in DOMAIN item => item["last_view"] <= now

Items(sc) ==
    IF sc = "sale"
    THEN {Merge(c, v) :
            c \in Key("codigo", {"A"}),
            v \in Key("precio_venta", {100, 120, 150})}
    ELSE IF sc = "prices"
    THEN {Merge(Merge(c, v), a) :
            c \in Key("codigo", {"A"}),
            v \in Opt("precio_venta", {100, 120}),
            a \in Opt("precio_arriendo", {10, 20})}
    ELSE IF sc = "attrs"
    THEN {Merge(Merge(c, v), b) :
            c \in Key("codigo", {"A"}),
            v \in Key("precio_venta", {100, 120}),
            b \in Bundles}
         \cup {[codigo |-> "B", precio_venta |-> 100, descripcion |-> "d1"]}
         \cup NoCodigoItems
    ELSE IF sc = "faults"
    THEN {Merge(c, v) :
            c \in Key("codigo", {"A"}),
            v \in Key("precio_venta", {100, 120})} \cup NoCodigoItems
    ELSE IF sc = "stamped"
    THEN {Merge(Merge(c, v), t) :
            c \in Key("codigo", {"A"}),
            v \in Key("precio_venta", {100, 120}),
            t \in Stamps}
    ELSE IF sc = "nulls"
    THEN {Merge(Merge(c, v), a) :
            c \in Key("codigo", {"A"}),
            v \in Key("precio_venta", {100}),
            a \in Opt("precio_arriendo", {None, 10})}
    ELSE {Merge(Merge(c, v), a) :
            c \in Key("codigo", {"A"}),
            v \in Key("precio_venta", {100, TextValue}),
            a \in Opt("descripcion", {"d1"})}
         \cup {[codigo |-> "A", precio_venta |-> 100, featured_interior |-> NotAList]}

SpidersOf(sc) ==
    IF sc \in {"prices", "malformed", "nulls"} THEN {"metrocuadrado", "habi"}
    ELSE IF sc = "stamped" THEN {"metrocuadrado"}
    ELSE IF sc = "attrs" THEN {"metrocuadrado", "habi", "metrocuadrado_search"}
    ELSE Spiders

\* the store operation that may raise PyMongoError in a call
Fails(sc) == IF sc = "faults" THEN {"none", "read", "write"} ELSE {"none"}

---------------------------------------------------------------------------
(* The state machine *)

\* the crawler processes that write to one collection
Workers == {"w1", "w2"}

\* a worker between calls; added and stale are history: the timeline entries
\* its writes appended (with their codigo), and whether one of its writes
\* was computed from a document another worker had written since
IdleWorker ==
    [pc |-> "idle", spider |-> "", data |-> EmptyDict, existing |-> EmptyDict,
     now |-> 0, dirty |-> FALSE, overlap |-> FALSE, added |-> {}, stale |-> FALSE]

NoCall ==
    [called |-> FALSE, active |-> FALSE, spider |-> "", item |-> EmptyDict,
     data |-> EmptyDict,
     outcome |-> "", path |-> "", price_changed |-> FALSE, reads |-> 0,
     writes |-> 0, pre |-> <<>>, at |-> 0, repeat |-> FALSE, prev_path |-> "",
     fail |-> "none"]

\* __init__: enabled until open_spider fails, no client, no db
Init ==
    /\ enabled = TRUE
    /\ client = "None"
    /\ db = "None"
    /\ store = <<>>
    /\ clock = 0
    /\ phase = "new"
    /\ scenario \in Scenarios
    /\ last = NoCall
    /\ workers = [w \in Workers |-> IdleWorker]

\* open_spider: connects, or disables the pipeline when the connection fails
open_spider(connects) ==
    /\ phase = "new"
    /\ phase' = "running"
    /\ IF connects
       THEN enabled' = TRUE /\ client' = "open" /\ db' = "db"
       ELSE enabled' = FALSE /\ client' = "None" /\ db' = "None"
    /\ UNCHANGED <<store, clock, scenario, last, workers>>

\* close_spider: closes the client if there is one
close_spider ==
    /\ phase = "running"
    /\ phase' = "closed"
    /\ client' = IF client # "None" THEN "closed" ELSE client
    /\ UNCHANGED <<enabled, db, store, clock, scenario, last, workers>>

ProcessItem(item, spider, fail) ==
    /\ phase \in {"new", "running"}
    /\ clock < MaxCalls
    /\ Scraped(item, clock)
    /\ LET r == process_item(store, enabled, client, db, item, spider, clock, fail)
       IN  /\ store' = r.store
           /\ last' = [called |-> TRUE,
                       active |-> (enabled /\ client # "None" /\ db # "None"),
                       spider |-> spider, item |-> item,
                       data |-> r.data, outcome |-> r.outcome, path |-> r.path,
                       price_changed |-> r.price_changed, reads |-> r.reads,
                       writes |-> r.writes, pre |-> store, at |-> clock,
                       repeat |-> (last.called /\ last.item = item
                                   /\ last.spider = spider),
                       prev_path |-> last.path, fail |-> fail]
    /\ clock' = clock + 1
    /\ UNCHANGED <<enabled, client, db, phase, scenario, workers>>

Next ==
    \/ \E connects \in BOOLEAN : open_spider(connects)
    \/ close_spider
    \/ \E item \in Items(scenario), spider \in SpidersOf(scenario), fail \in Fails(scenario) :
          ProcessItem(item, spider, fail)

Spec == Init /\ [][Next]_vars

---------------------------------------------------------------------------
(* Two crawls on one collection: process_item at the grain of its store    *)
(* operations (find_one, then update_one or insert_one), each one atomic   *)

\* the listings the two crawls yield
ConcItems ==
    {Merge(c, v) : c \in Key("codigo", {"A", "B"}), v \in Key("precio_venta", {100, 120})}

ConcSpiders == {"metrocuadrado", "habi"}

\* the collection an earlier run left: listings A and B at their first price
Seeded ==
    LET first == process_item(<<>>, TRUE, "open", "db",
                              [codigo |-> "A", precio_venta |-> 100], "metrocuadrado", 0, "none")
    IN  process_item(first.store, TRUE, "open", "db",
                     [codigo |-> "B", precio_venta |-> 100], "habi", 0, "none").store

\* both pipelines are open and connected
InitConc ==
    /\ enabled = TRUE
    /\ client = "open"
    /\ db = "db"
    /\ store = Seeded
    /\ clock = 0
    /\ phase = "running"
    /\ scenario = "sale"
    /\ last = NoCall
    /\ workers = [w \in Workers |-> IdleWorker]

\* the document find_one returned, EmptyDict for None
Found(coll, codigo) ==
    IF find_one(coll, codigo) = 0 THEN EmptyDict ELSE coll[find_one(coll, codigo)]

\* worker w enters process_item(item, spider) and reads the stored document
Read(w, item, spider) ==
    /\ workers[w].pc = "idle"
    /\ clock < MaxCalls
    /\ ~missing_codigo(item)
    /\ LET data == IF spider = "metrocuadrado" THEN remap(item) ELSE item
           busy == \E o \in Workers \ {w} : workers[o].pc = "read"
       IN  workers' =
             [o \in Workers |->
                IF o = w
                THEN [workers[w] EXCEPT !.pc = "read", !.spider = spider, !.data = data,
                                        !.existing = Found(store, data["codigo"]),
                                        !.now = clock, !.dirty = FALSE,
                                        !.overlap = @ \/ busy]
                ELSE [workers[o] EXCEPT !.overlap = @ \/ (workers[o].pc = "read")]]
    /\ clock' = clock + 1
    /\ UNCHANGED <<enabled, client, db, store, phase, scenario, last>>

\* what worker w writes from the document it read: the new collection and
\* the timeline entries its update appended
WriteOf(w) ==
    LET me == workers[w]
        c  == me.data["codigo"]
    IN  IF me.existing # EmptyDict
        THEN LET m  == merge_update(me.existing, me.data,
                                    IF me.spider = "metrocuadrado" THEN fields_to_track
                                    ELSE habi_fields,
                                    me.spider = "metrocuadrado", me.now)
                 tl == m.doc["timeline"]
                 n  == Len(Get(me.existing, "timeline", <<>>))
             IN  [store |-> update_one(store, c, m.doc),
                  added |-> {<<c, tl[i]>> : i \in (n + 1)..Len(tl)}]
        ELSE [store |-> insert_one(store, with_datetime(me.data, me.now)),
              added |-> {}]

\* worker w issues its update_one or insert_one and returns
Write(w) ==
    /\ workers[w].pc = "read"
    /\ LET me == workers[w]
           r  == WriteOf(w)
       IN  /\ store' = r.store
           /\ workers' =
                 [o \in Workers |->
                    IF o = w
                    THEN [me EXCEPT !.pc = "idle", !.added = @ \cup r.added,
                                    !.stale = @ \/ me.dirty]
                    ELSE IF workers[o].pc = "read"
                            /\ workers[o].data["codigo"] = me.data["codigo"]
                    THEN [workers[o] EXCEPT !.dirty = TRUE]
                    ELSE workers[o]]
    /\ UNCHANGED <<enabled, client, db, clock, phase, scenario, last>>

NextConc ==
    \/ \E w \in Workers, item \in ConcItems, spider \in ConcSpiders : Read(w, item, spider)
    \/ \E w \in Workers : Write(w)

SpecConc == InitConc /\ [][NextConc]_vars

---------------------------------------------------------------------------
(* Vocabulary of the properties: the last call, seen from the state after it *)

\* the last call ran the existing-record branch and wrote the record back
Updated == last.called /\ last.path = "update"

\* the record the last call found, before and after the call
PreDoc == last.pre[find_one(last.pre, last.data["codigo"])]

PostDoc == store[find_one(last.pre, last.data["codigo"])]

Timeline(doc) == Get(doc, "timeline", <<>>)

\* the entries the last call appended to the record it found
Appended ==
    SubSeq(Timeline(PostDoc), Len(Timeline(PreDoc)) + 1, Len(Timeline(PostDoc)))

\* entries without their timestamp: <<[precio_venta |-> 100], ...>>
Values(tl) == [i \in 1..Len(tl) |-> Del(tl[i], "fecha")]

\* the entries of tl for one field
RECURSIVE ForField(_, _)
ForField(tl, f) ==
    IF tl = <<>> THEN <<>>
    ELSE (IF f \in DOMAIN Head(tl) THEN <<Head(tl)>> ELSE <<>>) \o ForField(Tail(tl), f)

IsPrefix(s, t) == Len(s) <= Len(t) /\ SubSeq(t, 1, Len(s)) = s

\* the fields whose history the source of the last call keeps
TrackedBy(spider) ==
    IF spider = "metrocuadrado" THEN {"precio_venta", "precio_arriendo"}
    ELSE IF spider = "habi" THEN {"precio_venta"}
    ELSE {}

\* the observation of the last call carries f with a value other than the stored one
Changes(f) == f \in DOMAIN last.data /\ last.data[f] # Get(PreDoc, f, None)

\* the precondition of the first-change case: no timeline yet, a stored
\* sale price, and an observation with another sale price
FirstSaleChange ==
    /\ Updated
    /\ Timeline(PreDoc) = <<>>
    /\ "precio_venta" \in DOMAIN PreDoc
    /\ Changes("precio_venta")

One(f, v) == [k \in {f} |-> v]

---------------------------------------------------------------------------
(* C1 *)

\* C1 as stated: after the first change of precio_venta from v to w the
\* timeline is exactly [v, w] and the stored precio_venta is w, whatever else
\* the observation carries.
C1_ExactlyTwoEntries ==
    FirstSaleChange =>
        /\ Values(Timeline(PostDoc)) =
              <<One("precio_venta", PreDoc["precio_venta"]),
                One("precio_venta", last.data["precio_venta"])>>
        /\ PostDoc["precio_venta"] = last.data["precio_venta"]

\* C1 as amended: after the first change of precio_venta from v to w the
\* timeline begins with [v, w] in that order, the stored precio_venta is w,
\* every further entry is a precio_arriendo entry, and there is none when the
\* observation does not change a tracked precio_arriendo.
C1_BaselineThenNew ==
    FirstSaleChange =>
        LET tl == Values(Timeline(PostDoc))
        IN  /\ Len(tl) >= 2
            /\ tl[1] = One("precio_venta", PreDoc["precio_venta"])
            /\ tl[2] = One("precio_venta", last.data["precio_venta"])
            /\ PostDoc["precio_venta"] = last.data["precio_venta"]
            /\ \A i \in 3..Len(tl) : DOMAIN tl[i] = {"precio_arriendo"}
            /\ (~("precio_arriendo" \in TrackedBy(last.spider) /\ Changes("precio_arriendo"))
                  => Len(tl) = 2)

\* a first change of the sale price alone has been applied
C1_Witness ==
    /\ FirstSaleChange
    /\ ~Changes("precio_arriendo")
    /\ Len(Timeline(PostDoc)) = 2

---------------------------------------------------------------------------
(* C2 *)

\* C2: in an update, every tracked field f that changes gets a baseline entry
\* with its previous value before its new entry exactly when the timeline
\* held no entry for f; otherwise it gets the new entry alone.
C2_PerFieldBaseline ==
    Updated =>
        \A f \in TrackedBy(last.spider) :
            Changes(f) =>
                Values(ForField(Appended, f)) =
                    IF ForField(Timeline(PreDoc), f) = <<>>
                    THEN <<One(f, Get(PreDoc, f, None)), One(f, last.data[f])>>
                    ELSE <<One(f, last.data[f])>>

---------------------------------------------------------------------------
(* C3 *)

\* C3: applying the same observation again, right after it was applied to an
\* existing record, appends no timeline entry, changes no stored value other
\* than last_view, and reports no price change.
C3_NoOpIdempotence ==
    (last.called /\ last.repeat /\ last.prev_path = "update") =>
        /\ ~last.price_changed
        /\ Len(store) = Len(last.pre)
        /\ \A i \in 1..Len(store) :
              /\ Timeline(store[i]) = Timeline(last.pre[i])
              /\ Del(store[i], "last_view") = Del(last.pre[i], "last_view")

\* the observation that had changed the price was applied a second time
C3_Witness ==
    /\ last.called /\ last.repeat /\ last.prev_path = "update"
    /\ Updated
    /\ Len(Timeline(PostDoc)) >= 2
    /\ PostDoc["last_view"] # PreDoc["last_view"]

---------------------------------------------------------------------------
(* C4 *)

\* C4: a tracked field that already has timeline entries and changes again
\* gets exactly one new entry, holding the new value; after insert(100),
\* update(120), update(150) on precio_venta the timeline has length 3.
C4_NoSecondBaseline ==
    Updated =>
        /\ \A f \in TrackedBy(last.spider) :
              (Changes(f) /\ ForField(Timeline(PreDoc), f) # <<>>) =>
                  Values(ForField(Appended, f)) = <<One(f, last.data[f])>>
        /\ (/\ Values(Timeline(PreDoc)) =
                  <<One("precio_venta", 100), One("precio_venta", 120)>>
            /\ last.item = [codigo |-> "A", precio_venta |-> 150])
              => Values(Timeline(PostDoc)) =
                    <<One("precio_venta", 100), One("precio_venta", 120),
                      One("precio_venta", 150)>>

\* insert(100), update(120), update(150) has run
C4_Witness ==
    /\ Updated
    /\ Values(Timeline(PreDoc)) = <<One("precio_venta", 100), One("precio_venta", 120)>>
    /\ last.item = [codigo |-> "A", precio_venta |-> 150]
    /\ Len(Timeline(PostDoc)) = 3

---------------------------------------------------------------------------
(* C5 *)

\* C5: the timeline a record had before a call is a prefix of the timeline it
\* has after the call, for every record and every call.
C5_AppendOnly ==
    last.called =>
        /\ Len(last.pre) <= Len(store)
        /\ \A i \in 1..Len(last.pre) :
              /\ store[i]["_id"] = last.pre[i]["_id"]
              /\ IsPrefix(Timeline(last.pre[i]), Timeline(store[i]))

\* an update extended a timeline that already held entries
C5_Witness ==
    /\ Updated
    /\ Timeline(PreDoc) # <<>>
    /\ Len(Timeline(PostDoc)) > Len(Timeline(PreDoc))

---------------------------------------------------------------------------
(* C6 *)

\* C6: after any sequence of process_item calls, from any spider, the
\* collection holds at most one record for each codigo.
C6_UniqueCodigo ==
    \A i, j \in 1..Len(store) :
        store[i]["codigo"] = store[j]["codigo"] => i = j

---------------------------------------------------------------------------
(* C7 *)

\* the observation has no codigo, or an empty one
NoCodigo(item) == "codigo" \notin DOMAIN item \/ item["codigo"] = ""

\* C7 as stated: every call with a missing or empty codigo ends in DropItem
\* before any read or write, and leaves the store as it was.
C7_AlwaysDropped ==
    (last.called /\ NoCodigo(last.item)) =>
        /\ last.outcome = "DropItem"
        /\ last.reads = 0 /\ last.writes = 0
        /\ store = last.pre

\* C7 as amended: a call with a missing or empty codigo performs no read and
\* no write and leaves the store as it was; it ends in DropItem when the
\* pipeline is enabled and connected, and returns the item when it is not.
C7_DroppedWhenEnabled ==
    (last.called /\ NoCodigo(last.item)) =>
        /\ last.outcome = (IF last.active THEN "DropItem" ELSE "item")
        /\ last.reads = 0 /\ last.writes = 0
        /\ store = last.pre

\* an enabled pipeline holding records has dropped an item without codigo
C7_Witness ==
    /\ last.called /\ NoCodigo(last.item) /\ last.active
    /\ last.outcome = "DropItem"
    /\ store # <<>>

---------------------------------------------------------------------------
(* C8 *)

FeaturedSet ==
    {"featured_interior", "featured_exterior", "featured_zona_comun", "featured_sector"}

\* the observation as the metrocuadrado source stores it: the four feature
\* lists joined into caracteristicas
Remapped(item) ==
    [k \in ((DOMAIN item) \ FeaturedSet) \cup {"caracteristicas"} |->
        IF k = "caracteristicas"
        THEN Get(item, "featured_interior", <<>>) \o Get(item, "featured_exterior", <<>>)
             \o Get(item, "featured_zona_comun", <<>>) \o Get(item, "featured_sector", <<>>)
        ELSE item[k]]

Observation == IF last.spider = "metrocuadrado" THEN Remapped(last.item) ELSE last.item

\* the last call applied, without a storage error, an observation of a
\* persisting source whose codigo was not in the store
InsertCase ==
    /\ last.called /\ last.active /\ ~NoCodigo(last.item)
    /\ last.spider # "metrocuadrado_search"
    /\ find_one(last.pre, last.item["codigo"]) = 0
    /\ last.outcome = "item"

\* C8: applying an observation whose codigo is not in the store adds exactly
\* one record, with that codigo, with the (remapped) observation's fields and
\* nothing else but _id and datetime, and without timeline; the records held
\* before are unchanged.
C8_Insert ==
    InsertCase =>
        /\ Len(store) = Len(last.pre) + 1
        /\ SubSeq(store, 1, Len(last.pre)) = last.pre
        /\ LET new == store[Len(store)]
           IN  /\ new["codigo"] = last.item["codigo"]
               /\ \A k \in DOMAIN Observation :
                     k \in DOMAIN new /\ new[k] = Observation[k]
               /\ DOMAIN new \subseteq (DOMAIN Observation) \cup {"_id", "datetime"}
               /\ Timeline(new) = <<>>

\* a metrocuadrado observation with feature lists and its own datetime was
\* inserted beside a record already stored
C8_Witness ==
    /\ InsertCase
    /\ last.spider = "metrocuadrado"
    /\ last.pre # <<>>
    /\ "datetime" \in DOMAIN last.item
    /\ store[Len(store)]["caracteristicas"] # <<>>

---------------------------------------------------------------------------
(* C9 *)

BothChange ==
    /\ Updated /\ last.spider = "metrocuadrado"
    /\ Changes("precio_venta") /\ Changes("precio_arriendo")

\* C9: a metrocuadrado update that changes precio_venta and precio_arriendo
\* appends entries for both, every precio_venta entry before any
\* precio_arriendo entry.
C9_SaleBeforeRent ==
    BothChange =>
        /\ ForField(Appended, "precio_venta") # <<>>
        /\ ForField(Appended, "precio_arriendo") # <<>>
        /\ \A i, j \in 1..Len(Appended) :
              ("precio_venta" \in DOMAIN Appended[i]
                  /\ "precio_arriendo" \in DOMAIN Appended[j]) => i < j

\* both prices of a stored record changed in one update
C9_Witness ==
    /\ BothChange
    /\ "precio_venta" \in DOMAIN PreDoc /\ "precio_arriendo" \in DOMAIN PreDoc
    /\ Len(Appended) >= 2

---------------------------------------------------------------------------
(* C10 *)

\* keys of a record that are not attributes of the listing
Bookkeeping == {"codigo", "_id", "datetime", "last_view", "timeline"}

\* C10: after an update every non-tracked attribute the observation carries
\* has the observation's value in the stored record, and no timeline entry
\* is made for it.
C10_NonTrackedOverwrite ==
    Updated =>
        \A k \in (DOMAIN last.data) \ (TrackedBy(last.spider) \cup Bookkeeping) :
            /\ k \in DOMAIN PostDoc
            /\ PostDoc[k] = last.data[k]
            /\ \A i \in 1..Len(Appended) : k \notin DOMAIN Appended[i]

---------------------------------------------------------------------------
(* C11 *)

\* C11: a process_item call for the metrocuadrado_search source with a
\* non-empty codigo performs no read and no write, leaves the store as it
\* was, and returns the item.
C11_SearchSkipsStore ==
    (last.called /\ last.spider = "metrocuadrado_search" /\ ~NoCodigo(last.item)) =>
        /\ last.reads = 0 /\ last.writes = 0
        /\ store = last.pre
        /\ last.outcome = "item"
        /\ last.data = last.item

\* an enabled pipeline holding a record passed a metrocuadrado_search item
\* with the same codigo through
C11_Witness ==
    /\ last.called /\ last.spider = "metrocuadrado_search" /\ last.active
    /\ ~NoCodigo(last.item)
    /\ find_one(store, last.item["codigo"]) # 0

---------------------------------------------------------------------------
(* C12 *)

\* a featured_* value of the item is not a list
BadFeatures(item) == \E k \in FeaturedSet \cap DOMAIN item : item[k] = NotAList

\* the last call reached a store operation that failed: the find_one of
\* metrocuadrado or habi, or the update_one or insert_one of a persisting source
StorageFailed ==
    /\ last.called /\ last.active /\ ~NoCodigo(last.item)
    /\ \/ last.fail = "read" /\ last.spider \in {"metrocuadrado", "habi"}
       \/ /\ last.fail = "write" /\ last.spider # "metrocuadrado_search"
          /\ ~(last.spider = "metrocuadrado" /\ BadFeatures(last.item))

\* C12: when the store's read or write fails during a call, the call ends in
\* DropItem and the store, with every record's timeline and tracked values,
\* is exactly as before the call.
C12_FailureCommitsNothing ==
    StorageFailed => (last.outcome = "DropItem" /\ store = last.pre)

\* the write of an update that would have recorded a new price failed
C12_Witness ==
    /\ StorageFailed /\ last.fail = "write"
    /\ find_one(last.pre, last.item["codigo"]) # 0
    /\ last.spider = "metrocuadrado"
    /\ Changes("precio_venta")
    /\ store = last.pre

---------------------------------------------------------------------------
(* C13 *)

\* positions of the store whose document was added or changed by the last call
Touched == {i \in 1..Len(store) : i > Len(last.pre) \/ store[i] # last.pre[i]}

\* C13: a call performs at most one write operation; the store is then either
\* as before the call or differs in one document, which is a whole inserted
\* record or the whole merged record (every changed tracked field has its new
\* value and its new entry together).
C13_OneAtomicWrite ==
    last.called =>
        /\ last.writes <= 1
        /\ Len(store) >= Len(last.pre)
        /\ Cardinality(Touched) <= last.writes
        /\ (last.outcome = "DropItem" => store = last.pre)
        /\ Updated =>
              \A f \in TrackedBy(last.spider) :
                  Changes(f) => /\ PostDoc[f] = last.data[f]
                                /\ ForField(Appended, f) # <<>>

\* one update_one wrote two changed prices and their entries at once
C13_Witness ==
    /\ BothChange
    /\ last.writes = 1
    /\ Cardinality(Touched) = 1
    /\ Len(Appended) >= 2

---------------------------------------------------------------------------
(* C14 *)

\* C14: after a call that ended in DropItem (missing codigo, storage error or
\* another exception) the pipeline is still enabled and connected and the
\* store is as before the call, so every later call does what it would have
\* done had the failed item not been submitted.
C14_FailureIsolation ==
    (last.called /\ last.outcome = "DropItem") =>
        /\ last.active
        /\ enabled /\ db = "db" /\ client # "None"
        /\ (phase = "running" => client = "open")
        /\ store = last.pre
        /\ \A item \in Items(scenario), spider \in SpidersOf(scenario) :
              process_item(store, enabled, "open", db, item, spider, clock, "none") =
              process_item(last.pre, TRUE, "open", "db", item, spider, clock, "none")

\* a TypeError in the feature loop, raised while the store held a record
C14_Witness ==
    /\ last.called /\ last.outcome = "DropItem"
    /\ last.spider = "metrocuadrado" /\ BadFeatures(last.item)
    /\ last.fail = "none"
    /\ store # <<>>

\* a failed insert_one, with the pipeline still running
C14_WitnessStorage ==
    /\ last.called /\ last.outcome = "DropItem"
    /\ last.fail = "write" /\ last.path = "error"
    /\ phase = "running"

---------------------------------------------------------------------------
(* C15 *)

\* the last call ran the metrocuadrado remapping on its item
RemapRan ==
    /\ last.called /\ last.spider = "metrocuadrado"
    /\ last.path \in {"insert", "update"}

\* C15: remapping an observation that has already been remapped yields the
\* same observation, with the same caracteristicas list and no duplicates.
C15_RemapIdempotent == RemapRan => remap(last.data) = last.data

\* What the code does instead (behind C15's failure): the remapped
\* observation holds the four feature lists joined in order and none of the
\* raw keys; remapping it again keeps every other field and duplicates
\* nothing, but leaves caracteristicas empty.
RemapTwiceResets ==
    RemapRan =>
        LET again == remap(last.data)
        IN  /\ last.data = Remapped(last.item)
            /\ Del(again, "caracteristicas") = Del(last.data, "caracteristicas")
            /\ again["caracteristicas"] = <<>>
            /\ (again = last.data) <=> (last.data["caracteristicas"] = <<>>)

---------------------------------------------------------------------------
(* C16 *)

IsNumber(v) == v >= 0

\* one value is text and the other a number
Incomparable(a, b) ==
    (a = TextValue /\ IsNumber(b)) \/ (IsNumber(a) /\ b = TextValue)

\* the tracked fields whose observed and stored values cannot be compared
Malformed ==
    {f \in TrackedBy(last.spider) :
        /\ f \in DOMAIN last.data /\ f \in DOMAIN PreDoc
        /\ Incomparable(last.data[f], PreDoc[f])}

\* C16: when the observed value of a tracked field cannot be compared with
\* the stored one, the update appends no entry for the field, keeps its stored
\* value, still writes the non-tracked attributes, and does not raise.
C16_MalformedSkipped ==
    (last.called /\ last.active /\ last.fail = "none" /\ ~NoCodigo(last.item)
        /\ last.spider \in {"metrocuadrado", "habi"}
        /\ ~(last.spider = "metrocuadrado" /\ BadFeatures(last.item))
        /\ find_one(last.pre, last.item["codigo"]) # 0
        /\ Malformed # {}) =>
        /\ last.outcome = "item"
        /\ \A f \in Malformed :
              /\ ForField(Appended, f) = <<>>
              /\ PostDoc[f] = PreDoc[f]
        /\ \A k \in {"descripcion", "imagenes"} \cap DOMAIN last.data :
              k \in DOMAIN PostDoc /\ PostDoc[k] = last.data[k]

---------------------------------------------------------------------------
(* C17 *)

\* C17: when the observation carries a tracked field the stored record does
\* not have, the update stores the observed value, flags the change, and
\* appends a baseline entry with a null value for the field followed by an
\* entry with the new value.
C17_NewFieldBaseline ==
    Updated =>
        \A f \in TrackedBy(last.spider) :
            (f \in DOMAIN last.data /\ f \notin DOMAIN PreDoc) =>
                /\ PostDoc[f] = last.data[f]
                /\ last.price_changed
                /\ Values(ForField(Appended, f)) = <<One(f, None), One(f, last.data[f])>>

---------------------------------------------------------------------------
(* C18 *)

\* tracked fields the record holds and the observation does not carry
Disappeared ==
    {f \in TrackedBy(last.spider) : f \in DOMAIN PreDoc /\ f \notin DOMAIN last.data}

\* C18: a tracked field stored in the record and absent from the observation
\* keeps its stored value and gets no timeline entry, and the call flags a
\* change only if another tracked field of the observation is new or changed.
C18_AbsentIsNoChange ==
    Updated =>
        /\ \A f \in Disappeared :
              /\ f \in DOMAIN PostDoc /\ PostDoc[f] = PreDoc[f]
              /\ ForField(Appended, f) = <<>>
        /\ (Disappeared # {} /\ last.price_changed) =>
              \E g \in TrackedBy(last.spider) \ Disappeared :
                  g \in DOMAIN last.data /\ (Changes(g) \/ g \notin DOMAIN PreDoc)

\* the stored rent price was missing from an observation that changed nothing
C18_Witness ==
    /\ Updated
    /\ "precio_arriendo" \in Disappeared
    /\ ~last.price_changed
    /\ PostDoc["precio_arriendo"] = PreDoc["precio_arriendo"]

---------------------------------------------------------------------------
(* C19 *)

\* C19: a non-tracked attribute (imagenes, descripcion) stored in the record
\* and absent from the observation keeps its stored value in an update.
C19_MergeDontErase ==
    Updated =>
        \A k \in {"imagenes", "descripcion"} :
            (k \in DOMAIN PreDoc /\ k \notin DOMAIN last.data) =>
                (k \in DOMAIN PostDoc /\ PostDoc[k] = PreDoc[k])

---------------------------------------------------------------------------
(* C20 *)

\* the timeline of the record stored under codigo c
StoredTimeline(c) == Timeline(Found(store, c))

Range(seq) == {seq[i] : i \in 1..Len(seq)}

\* every entry worker w has appended is in the stored timeline
Kept(w) == \A p \in workers[w].added : p[2] \in Range(StoredTimeline(p[1]))

AllIdle == \A w \in Workers : workers[w].pc = "idle"

\* C20 as stated: whatever the interleaving of two workers' find_one and
\* update_one on one collection, once their calls have completed every
\* timeline entry either of them added is in the stored timeline.
C20_NoLostUpdate == AllIdle => \A w \in Workers : Kept(w)

\* C20 as amended: as long as no worker has written a document computed from
\* a read that another worker's write to the same codigo had made stale,
\* every timeline entry a worker added is in the stored timeline.
C20_NoLossWithoutStaleWrite ==
    (\A w \in Workers : ~workers[w].stale) => \A w \in Workers : Kept(w)

\* two calls that ran at the same time on different listings have both
\* completed, each having appended to its record
C20_Witness ==
    /\ AllIdle
    /\ \A w \in Workers :
          /\ workers[w].overlap
          /\ ~workers[w].stale
          /\ workers[w].added # {}
    /\ \A w \in Workers : Kept(w)

---------------------------------------------------------------------------
(* C21 *)

\* C21: every update of an existing record sets its last_view to the time of
\* the call, whether or not a tracked field changed, and no call lowers the
\* last_view of any stored record.
C21_LastViewRefreshed ==
    /\ Updated => ("last_view" \in DOMAIN PostDoc /\ PostDoc["last_view"] = last.at)
    /\ last.called =>
          \A i \in 1..Len(last.pre) :
              "last_view" \in DOMAIN last.pre[i] =>
                  /\ "last_view" \in DOMAIN store[i]
                  /\ store[i]["last_view"] >= last.pre[i]["last_view"]

\* an update that changed no price moved last_view forward
C21_Witness ==
    /\ Updated
    /\ ~last.price_changed
    /\ Appended = <<>>
    /\ "last_view" \in DOMAIN PreDoc
    /\ PreDoc["last_view"] < PostDoc["last_view"]
    /\ PostDoc["last_view"] = last.at

---------------------------------------------------------------------------
(* C22 *)

\* the fecha values of the entries never go down along the list
Chronological(tl) == \A i \in 1..(Len(tl) - 1) : tl[i]["fecha"] <= tl[i + 1]["fecha"]

\* C22: in every stored record the fecha values of the timeline entries are
\* non-decreasing in list order, and the baseline entry an update writes
\* carries the record's stored datetime (the time of the call when it has
\* none).
C22_Chronological ==
    /\ \A i \in 1..Len(store) : Chronological(Timeline(store[i]))
    /\ (Updated /\ Timeline(PreDoc) = <<>> /\ Appended # <<>>) =>
          Appended[1]["fecha"] = Get(PreDoc, "datetime", last.at)

\* a record holds a baseline dated at its stored datetime and two later
\* entries, each dated after the one before
C22_Witness ==
    /\ Updated
    /\ Len(Timeline(PostDoc)) = 3
    /\ Timeline(PostDoc)[1]["fecha"] = PostDoc["datetime"]
    /\ Timeline(PostDoc)[1]["fecha"] < Timeline(PostDoc)[2]["fecha"]
    /\ Timeline(PostDoc)[2]["fecha"] < Timeline(PostDoc)[3]["fecha"]

---------------------------------------------------------------------------
(* C23 *)

TrackedFields == {"precio_venta", "precio_arriendo"}

\* the value of the last timeline entry of doc for field f
LastRecorded(doc, f) ==
    ForField(Timeline(doc), f)[Len(ForField(Timeline(doc), f))][f]

\* C23: in every stored record, each tracked field that has a timeline entry
\* is stored with the value of its last timeline entry.
C23_StoredMatchesHistory ==
    \A i \in 1..Len(store) : \A f \in TrackedFields :
        ForField(Timeline(store[i]), f) # <<>> =>
            (f \in DOMAIN store[i] /\ store[i][f] = LastRecorded(store[i], f))

\* a record whose two prices both have entries, the sale price more than one
C23_Witness ==
    /\ Updated
    /\ Len(ForField(Timeline(PostDoc), "precio_venta")) >= 2
    /\ ForField(Timeline(PostDoc), "precio_arriendo") # <<>>
    /\ \A f \in TrackedFields : PostDoc[f] = LastRecorded(PostDoc, f)

---------------------------------------------------------------------------
(* C24 *)

\* C24: an update flags a price change exactly when it appends at least one
\* timeline entry.
C24_FlagIffEntry == Updated => (last.price_changed <=> Appended # <<>>)

---------------------------------------------------------------------------
(* C25 *)

OtherSpider(spider) == IF spider = "metrocuadrado" THEN "habi" ELSE "metrocuadrado"

\* the last call's observation applied to the same collection at the same
\* time by the other of the two tracking spiders
OtherPath ==
    process_item(last.pre, TRUE, "open", "db", last.item, OtherSpider(last.spider),
                 last.at, "none")

\* the last call and its counterpart both ran the existing-record branch on
\* an observation without precio_arriendo
BothUpdate ==
    /\ Updated
    /\ last.spider \in {"metrocuadrado", "habi"}
    /\ "precio_arriendo" \notin DOMAIN last.item
    /\ OtherPath.path = "update"

\* C25: for the same stored record and an observation without
\* precio_arriendo, the metrocuadrado update and the habi update persist the
\* same precio_venta and the same timeline, and what they persist is the
\* merged state: the observed precio_venta.
C25_UpdatePathsAgree ==
    BothUpdate =>
        LET other == OtherPath.store[find_one(last.pre, last.item["codigo"])]
        IN  /\ Timeline(other) = Timeline(PostDoc)
            /\ DOMAIN other \cap {"precio_venta"} = DOMAIN PostDoc \cap {"precio_venta"}
            /\ "precio_venta" \in DOMAIN PostDoc =>
                  other["precio_venta"] = PostDoc["precio_venta"]
            /\ "precio_venta" \in DOMAIN last.item =>
                  PostDoc["precio_venta"] = last.item["precio_venta"]
            /\ OtherPath.price_changed = last.price_changed

\* a metrocuadrado update recorded a new sale price that the habi update
\* would have recorded too
C25_Witness ==
    /\ BothUpdate
    /\ last.spider = "metrocuadrado"
    /\ last.price_changed
    /\ Appended # <<>>
    /\ PostDoc["precio_venta"] # PreDoc["precio_venta"]

---------------------------------------------------------------------------
(* C26 *)

\* the last call found the pipeline disabled or not connected and returned
\* its item untouched, without any store operation
PassedThrough ==
    (last.called /\ ~last.active) =>
        /\ last.outcome = "item"
        /\ last.data = last.item
        /\ last.reads = 0 /\ last.writes = 0
        /\ store = last.pre

\* a process_item call leaves enabled, client and db as they were
CallKeepsConnection == (clock' # clock) => UNCHANGED <<enabled, client, db>>

\* close_spider closes the client it finds, and makes none when there is none
CloseOnlyOpened ==
    (phase = "running" /\ phase' = "closed") =>
        client' = (IF client = "None" THEN "None" ELSE "closed")

\* C26: a call on a pipeline that is disabled or not connected, for any item
\* including one without codigo, returns the item unchanged without raising
\* and without any store operation; process_item never changes enabled,
\* client or db; close_spider closes a client only if one was opened.
C26_DisabledPassesThrough ==
    /\ []PassedThrough
    /\ [][CallKeepsConnection]_vars
    /\ [][CloseOnlyOpened]_vars

\* a pipeline whose connection failed passed an item without codigo and was
\* closed with no client
C26_Witness ==
    /\ phase = "closed"
    /\ ~enabled /\ client = "None" /\ db = "None"
    /\ last.called /\ ~last.active
    /\ NoCodigo(last.item)
    /\ last.outcome = "item"

---------------------------------------------------------------------------
(* C27 *)

\* the identity of a record: its codigo, its first-seen datetime and its _id
Identity(doc) == [k \in DOMAIN doc \cap {"codigo", "datetime", "_id"} |-> doc[k]]

\* C27: a process_item call removes no stored record and changes neither the
\* codigo nor the stored datetime of any, even when the observation carries
\* a datetime of its own.
C27_FirstSeenFrozen ==
    last.called =>
        /\ Len(store) >= Len(last.pre)
        /\ \A i \in 1..Len(last.pre) : Identity(store[i]) = Identity(last.pre[i])

\* an update from an observation stamped with another datetime kept the
\* stored one
C27_Witness ==
    /\ Updated
    /\ "datetime" \in DOMAIN last.item
    /\ last.item["datetime"] # PreDoc["datetime"]
    /\ PostDoc["datetime"] = PreDoc["datetime"]
    /\ PostDoc["codigo"] = last.item["codigo"]

====
